---- MODULE Spec2Model ----
(***************************************************************************)
(* FontFinder AI: the App component's state (image, loading, results,      *)
(* error, copiedChar), its event handlers and callbacks, the rendered      *)
(* view they are reachable through, and identifyFonts of fontService.ts.   *)
(*                                                                         *)
(* One step of the model is one task of the browser event loop: a user     *)
(* event handler, a FileReader onload, a timer callback, the settling of   *)
(* the gateway call.  The continuation of an await runs as a microtask, so *)
(* while a promise returned by identifyFonts is settled and not yet        *)
(* consumed no other task can run (MicrotaskPending).                      *)
(*                                                                         *)
(* The gateway's answer is not validated: identifyFonts returns whatever   *)
(* JSON.parse yields, so results can hold any JSON value, and the render   *)
(* can throw on it.  A render that throws unmounts the component (there is *)
(* no error boundary): nothing is on screen any more and later setState    *)
(* calls have no effect.                                                   *)
(***************************************************************************)
EXTENDS Integers, Sequences, FiniteSets, TLC

\* ---------------------------------------------------------------- bounds
NumImages   == 2   \* distinct image files the user can drop
MaxFonts    == 2   \* longest array the gateway returns
MaxReads    == 1   \* FileReader reads pending at once
MaxTimers   == 2   \* setTimeout callbacks pending at once
MaxInflight == 2   \* handleAnalyze invocations suspended at once

\* ------------------------------------------------------------- constants
NoImage == 0                      \* useState<string | null>(null)
Null    == "null"                 \* null of error / copiedChar
NoFontsNotice == "No fonts could be identified. Try a clearer image."
GenericError  == "An error occurred during analysis. Please try again."

Images  == 1..NumImages           \* data URLs produced by readAsDataURL
Buckets == <<"numbers", "english", "persian">>   \* in display order

\* ------------------------------------------------------------ JSON values
\* A JavaScript value as JSON.parse produces it.  t is its type; text is
\* the JSON text of a scalar or an object; keys are the properties an
\* object has; n is the length of a string; items the elements of an array.
JVal(t, text, keys, sc, n, items) ==
  [t |-> t, text |-> text, name |-> text, keys |-> keys,
   sampleCharacters |-> sc, n |-> n, items |-> items]

NoChars == [english |-> <<>>, persian |-> <<>>, numbers |-> <<>>]

JNull      == JVal("null",   "null",    {}, NoChars, 0, <<>>)
JNumber    == JVal("number", "5",       {}, NoChars, 0, <<>>)
JString    == JVal("string", "\"abc\"", {}, NoChars, 3, <<>>)
JEmptyStr  == JVal("string", "\"\"",    {}, NoChars, 0, <<>>)
JArr(items) == JVal("array", "", {}, NoChars, 0, items)
EmptyArray == JArr(<<>>)

\* FontInfo records the gateway can return (fields that drive behaviour).
FontKeys == {"name", "confidence", "isFree", "downloadUrl", "description",
             "sampleCharacters"}
FontA == JVal("object", "A", FontKeys,
              [english |-> <<"a">>, persian |-> <<"alef">>, numbers |-> <<"1">>],
              0, <<>>)
FontB == JVal("object", "B", FontKeys,
              [english |-> <<"a">>, persian |-> <<>>, numbers |-> <<"1">>],
              0, <<>>)
FontPool == {FontA, FontB}
\* An object that is not a FontInfo: {"name": ...} without sampleCharacters.
NameOnly == JVal("object", "{name}", {"name"}, NoChars, 0, <<>>)

Scalars  == {JNull, JNumber, JString, JEmptyStr}
Objects  == FontPool \cup {NameOnly}
Atoms    == Scalars \cup Objects
ValueTokens == {v.text : v \in Atoms}
ValueOfToken(tok) == CHOOSE v \in Atoms : v.text = tok

\* Arrays of FontInfo, as the response schema asks for.
FontLists == {JArr(s) : s \in UNION {[1..n -> FontPool] : n \in 0..MaxFonts}}
\* Arrays with an element that is not a FontInfo.
OddArrays == {JArr(<<JNull>>), JArr(<<NameOnly>>), JArr(<<EmptyArray>>),
              JArr(<<JArr(<<FontA>>)>>), JArr(<<FontA, JNull>>)}
ReturnedValues == Atoms \cup FontLists \cup OddArrays

\* ------------------------------------------------- response bodies (text)
\* response.text is modelled as a sequence of JSON tokens; the token "A"
\* stands for the JSON object text of FontA.  Absent text is undefined.
RECURSIVE Encode(_)
Encode(v) ==
  IF v.t # "array" THEN <<v.text>>
  ELSE LET RECURSIVE Join(_)
           Join(s) == IF Len(s) = 0 THEN <<>>
                      ELSE IF Len(s) = 1 THEN Encode(s[1])
                      ELSE Encode(s[1]) \o <<",">> \o Join(Tail(s))
       IN  <<"[">> \o Join(v.items) \o <<"]">>

DropLast(s) == SubSeq(s, 1, Len(s) - 1)

AbsentText == [present |-> FALSE, tokens |-> <<>>]
Text(toks) == [present |-> TRUE, tokens |-> toks]

\* Texts JSON.parse rejects: truncated, stray comma, not JSON, two values.
Malformed ==
  {DropLast(Encode(EmptyArray)), DropLast(Encode(JArr(<<FontA>>))),
   <<"[", ",", "]">>, <<"[", "A", ",", "]">>, <<"<html>">>, <<"A", "B">>}

Bodies ==
  {AbsentText, Text(<<>>)}
    \cup {Text(Encode(v)) : v \in ReturnedValues}
    \cup {Text(t) : t \in Malformed}

\* JSON.parse on the token text: the parsed value, or a SyntaxError.
ParseFail == [ok |-> FALSE, value |-> JNull, rest |-> <<>>]

RECURSIVE ParseValue(_)
RECURSIVE ParseElems(_, _)
\* One JSON value at the front of toks, and what follows it.
ParseValue(toks) ==
  IF Len(toks) = 0 THEN ParseFail
  ELSE IF toks[1] \in ValueTokens
       THEN [ok |-> TRUE, value |-> ValueOfToken(toks[1]), rest |-> Tail(toks)]
  ELSE IF toks[1] = "["
       THEN IF Len(toks) >= 2 /\ toks[2] = "]"
            THEN [ok |-> TRUE, value |-> EmptyArray,
                  rest |-> SubSeq(toks, 3, Len(toks))]
            ELSE LET first == ParseValue(Tail(toks))
                 IN  IF first.ok THEN ParseElems(first.rest, <<first.value>>)
                     ELSE ParseFail
  ELSE ParseFail

\* toks starts right after an element: "]" ends the array, "," continues it.
ParseElems(toks, acc) ==
  IF Len(toks) = 0 THEN ParseFail
  ELSE IF toks[1] = "]"
       THEN [ok |-> TRUE, value |-> JArr(acc), rest |-> Tail(toks)]
  ELSE IF toks[1] = ","
       THEN LET nxt == ParseValue(Tail(toks))
            IN  IF nxt.ok THEN ParseElems(nxt.rest, Append(acc, nxt.value))
                ELSE ParseFail
  ELSE ParseFail

JsonParse(toks) ==
  LET r == ParseValue(toks)
  IN  IF r.ok /\ Len(r.rest) = 0 THEN r ELSE ParseFail

\* fontService.ts 75-82: the try/catch around response.text and JSON.parse.
ParseResponse(body) ==
  IF ~body.present \/ Len(body.tokens) = 0 THEN EmptyArray  \* if (!text) return []
  ELSE LET r == JsonParse(body.tokens)
       IN  IF r.ok THEN r.value ELSE EmptyArray             \* catch (e) return []

\* v.length in JavaScript: defined for arrays and strings only.
HasLength(v) == v.t \in {"array", "string"}
JsLength(v)  == IF v.t = "array" THEN Len(v.items) ELSE v.n

\* ------------------------------------------------------------------ state
VARIABLES
  apiKey,      \* process.env.GEMINI_API_KEY is set (fixed for the session)
  image,       \* useState image: NoImage or a data URL
  loading,     \* useState loading
  results,     \* useState results: the value identifyFonts returned
  error,       \* useState error: Null or a notice
  copiedChar,  \* useState copiedChar: Null or a character
  reads,       \* FileReader reads in progress, per file
  calls,       \* promises returned by identifyFonts, one per suspended handleAnalyze
  timers,      \* pending setTimeout(() => setCopiedChar(null), 1500) callbacks
  clipboard,   \* system clipboard contents
  view         \* what the last render put on screen

vars == <<apiKey, image, loading, results, error, copiedChar, reads, calls,
          timers, clipboard, view>>

\* ----------------------------------------------------------------- render
DisabledAnd(img, ld) == img = NoImage /\ ld
DisabledNoLoading(img, ld) == img = NoImage

\* App.tsx 111: disabled={!image || loading}
Disabled(img, ld) == img = NoImage \/ ld

\* App.tsx 157: results.length > 0
HasCards(res) == HasLength(res) /\ JsLength(res) > 0

\* App.tsx 163-246: one card renders without a TypeError when font.name and
\* font.sampleCharacters.numbers/english/persian can be read.
CardRenders(font) == font.t = "object" /\ "sampleCharacters" \in font.keys

\* App.tsx 157, 163: results.length on null, results.map on a string, or a
\* card that cannot be rendered, throws during render.
RenderThrows(res) ==
  \/ res.t = "null"
  \/ HasCards(res) /\ res.t # "array"
  \/ HasCards(res) /\ \E i \in 1..Len(res.items) : ~CardRenders(res.items[i])

\* Character cells of the rendered cards: <<card, bucket, position>>.
Cells(res) ==
  IF ~HasCards(res) THEN {}
  ELSE UNION {UNION {{<<i, Buckets[b], j>> :
                        j \in 1..Len(res.items[i].sampleCharacters[Buckets[b]])} :
                     b \in 1..Len(Buckets)} :
              i \in 1..Len(res.items)}

CharAt(res, cell) == res.items[cell[1]].sampleCharacters[cell[2]][cell[3]]

ShowsCopiedNotPersian(cc, cell, res) ==
  cc = CharAt(res, cell) /\ cell[2] # "persian"

\* App.tsx 204, 220, 236: {copiedChar === char && <div>Copied!</div>}
ShowsCopied(cc, cell, res) == cc = CharAt(res, cell)

\* Nothing is on screen: the component is not mounted.
Unmounted ==
  [mounted |-> FALSE, disabled |-> TRUE, preview |-> NoImage, notice |-> Null,
   cards |-> 0, cells |-> {}, copied |-> {}]

\* The JSX of App.tsx 57-279, as far as it depends on state.
Render(img, ld, res, err, cc) ==
  IF RenderThrows(res) THEN Unmounted
  ELSE [mounted  |-> TRUE,
        disabled |-> Disabled(img, ld),
        preview  |-> img,
        notice   |-> err,
        cards    |-> IF HasCards(res) THEN JsLength(res) ELSE 0,
        cells    |-> Cells(res),
        copied   |-> {c \in Cells(res) : ShowsCopied(cc, c, res)}]

\* A state update re-renders a mounted component and does nothing to an
\* unmounted one.
Rerender ==
  view' = IF view.mounted
          THEN Render(image', loading', results', error', copiedChar')
          ELSE view

\* ------------------------------------------------------------ identifyFonts
IdentifyFontsCallNoKeyCheck(img, key) ==
  [image |-> img, state |-> "pending", response |-> <<>>, value |-> EmptyArray]

\* fontService.ts 16-73: up to the awaited generateContent call.
IdentifyFontsCall(img, key) ==
  IF ~key
  THEN [image |-> img, state |-> "rejected", response |-> <<>>, value |-> EmptyArray]
  ELSE [image |-> img, state |-> "pending",  response |-> <<>>, value |-> EmptyArray]

\* fontService.ts 75-82: generateContent resolved with a body.
IdentifyFontsResolved(call, body) ==
  [call EXCEPT !.state = "fulfilled", !.response = <<body>>,
               !.value = ParseResponse(body)]

\* generateContent rejected: the rejection propagates out of identifyFonts.
IdentifyFontsRejected(call) == [call EXCEPT !.state = "rejected"]

Settled(call) == call.state \in {"fulfilled", "rejected"}
MicrotaskPending == \E k \in 1..Len(calls) : Settled(calls[k])
RemoveAt(s, k) == SubSeq(s, 1, k - 1) \o SubSeq(s, k + 1, Len(s))
PendingReads == LET RECURSIVE Sum(_)
                    Sum(S) == IF S = {} THEN 0
                              ELSE LET x == CHOOSE y \in S : TRUE
                                   IN  reads[x] + Sum(S \ {x})
                IN  Sum(Images)

\* ------------------------------------------------------------------- Init
Init ==
  /\ apiKey \in BOOLEAN
  /\ image = NoImage
  /\ loading = FALSE
  /\ results = EmptyArray
  /\ error = Null
  /\ copiedChar = Null
  /\ reads = [f \in Images |-> 0]
  /\ calls = <<>>
  /\ timers = 0
  /\ clipboard = Null
  /\ view = Render(NoImage, FALSE, EmptyArray, Null, Null)

\* ---------------------------------------------------------------- actions
\* App.tsx 14-25: onDrop starts a FileReader for the first accepted file.
OnDrop(acceptedFiles) ==
  /\ ~MicrotaskPending
  /\ view.mounted
  /\ IF Len(acceptedFiles) > 0
     THEN /\ PendingReads < MaxReads
          /\ reads' = [reads EXCEPT ![acceptedFiles[1]] = @ + 1]
     ELSE UNCHANGED reads
  /\ UNCHANGED <<apiKey, image, loading, results, error, copiedChar, calls,
                 timers, clipboard, view>>

\* App.tsx 18-22: reader.onload.
ReaderOnload(f) ==
  /\ ~MicrotaskPending
  /\ reads[f] > 0
  /\ reads' = [reads EXCEPT ![f] = @ - 1]
  /\ IF view.mounted
     THEN /\ image' = f
          /\ results' = EmptyArray
          /\ error' = Null
     ELSE UNCHANGED <<image, results, error>>
  /\ UNCHANGED <<apiKey, loading, copiedChar, calls, timers, clipboard>>
  /\ Rerender

\* App.tsx 33-38: click on the trigger; handleAnalyze up to the await.
HandleAnalyze ==
  /\ ~MicrotaskPending
  /\ view.mounted
  /\ ~view.disabled
  /\ Len(calls) < MaxInflight
  /\ UNCHANGED <<apiKey, image, results, copiedChar, reads, timers, clipboard>>
  /\ IF image = NoImage                                   \* if (!image) return
     THEN UNCHANGED <<loading, error, calls, view>>
     ELSE /\ loading' = TRUE
          /\ error' = Null
          /\ calls' = Append(calls, IdentifyFontsCall(image, apiKey))
          /\ Rerender

\* The gateway answers the outstanding generateContent call with a body.
GatewayResolve(k, body) ==
  /\ ~MicrotaskPending
  /\ k \in 1..Len(calls)
  /\ calls[k].state = "pending"
  /\ calls' = [calls EXCEPT ![k] = IdentifyFontsResolved(@, body)]
  /\ UNCHANGED <<apiKey, image, loading, results, error, copiedChar, reads,
                 timers, clipboard, view>>

\* The outstanding generateContent call fails (transport/provider error).
GatewayReject(k) ==
  /\ ~MicrotaskPending
  /\ k \in 1..Len(calls)
  /\ calls[k].state = "pending"
  /\ calls' = [calls EXCEPT ![k] = IdentifyFontsRejected(@)]
  /\ UNCHANGED <<apiKey, image, loading, results, error, copiedChar, reads,
                 timers, clipboard, view>>

OnFulfilledNoNotice(fonts) ==
  /\ results' = fonts
  /\ error' = IF fonts.t = "null" THEN GenericError ELSE error

\* App.tsx 39-45: the try block after the await; fonts.length on null
\* throws a TypeError, which the catch block turns into the generic error.
OnFulfilled(fonts) ==
  /\ results' = fonts
  /\ error' = IF fonts.t = "null" THEN GenericError
              ELSE IF HasLength(fonts) /\ JsLength(fonts) = 0 THEN NoFontsNotice
              ELSE error

OnRejectedClearing ==
  /\ error' = GenericError
  /\ results' = EmptyArray

\* App.tsx 43-45: the catch block.
OnRejected ==
  /\ error' = GenericError
  /\ UNCHANGED results

FinallySkipped == UNCHANGED loading

\* App.tsx 46-48: the finally block.
Finally == loading' = FALSE

\* App.tsx 38-48: handleAnalyze resumes after the await.
HandleAnalyzeResume(k) ==
  /\ k \in 1..Len(calls)
  /\ Settled(calls[k])
  /\ IF calls[k].state = "fulfilled"
     THEN OnFulfilled(calls[k].value)
     ELSE OnRejected
  /\ Finally
  /\ calls' = RemoveAt(calls, k)
  /\ UNCHANGED <<apiKey, image, copiedChar, reads, timers, clipboard>>
  /\ Rerender

\* App.tsx 51-55: click on a character cell.
CopyToClipboard(cell) ==
  /\ ~MicrotaskPending
  /\ cell \in view.cells
  /\ timers < MaxTimers
  /\ clipboard' = CharAt(results, cell)
  /\ copiedChar' = CharAt(results, cell)
  /\ timers' = timers + 1
  /\ UNCHANGED <<apiKey, image, loading, results, error, reads, calls>>
  /\ Rerender

\* App.tsx 54: a timer callback runs.
TimerFire ==
  /\ ~MicrotaskPending
  /\ timers > 0
  /\ timers' = timers - 1
  /\ copiedChar' = IF view.mounted THEN Null ELSE copiedChar
  /\ UNCHANGED <<apiKey, image, loading, results, error, reads, calls, clipboard>>
  /\ Rerender

Next ==
  \/ \E files \in {<<>>} \cup {<<f>> : f \in Images} : OnDrop(files)
  \/ \E f \in Images : ReaderOnload(f)
  \/ HandleAnalyze
  \/ \E k \in 1..MaxInflight, body \in Bodies : GatewayResolve(k, body)
  \/ \E k \in 1..MaxInflight : GatewayReject(k)
  \/ \E k \in 1..MaxInflight : HandleAnalyzeResume(k)
  \/ \E c \in view.cells : CopyToClipboard(c)
  \/ TimerFire

Spec == Init /\ [][Next]_vars

\* The gateway call eventually settles, and the event loop runs every
\* queued continuation.
Settle == \E k \in 1..MaxInflight :
            \/ \E body \in Bodies : GatewayResolve(k, body)
            \/ GatewayReject(k)
Resume == \E k \in 1..MaxInflight : HandleAnalyzeResume(k)
LiveSpec == Spec /\ WF_vars(Settle) /\ WF_vars(Resume)

TypeOK ==
  /\ apiKey \in BOOLEAN
  /\ image \in Images \cup {NoImage}
  /\ loading \in BOOLEAN
  /\ results \in ReturnedValues
  /\ error \in {Null, NoFontsNotice, GenericError}
  /\ timers \in 0..MaxTimers
  /\ Len(calls) <= MaxInflight


\* ----------------------------------------------------------- vocabulary
\* A new handleAnalyze invocation reached its await in this step.
Fired == Len(calls') > Len(calls)
\* A suspended handleAnalyze ran to its end in this step.
ResumeStep == MicrotaskPending /\ Len(calls') < Len(calls)
\* The promise the resuming handler was awaiting.
SettledCall == calls[CHOOSE k \in 1..Len(calls) : Settled(calls[k])]
\* A FileReader finished in this step.
LoadStep == PendingReads' < PendingReads

\* JSON text, stated positionally: a single scalar or object, or brackets
\* that balance and close only at the end, with every token followed by
\* one the grammar allows there.
Depth(toks, i) ==
  Cardinality({j \in 1..i : toks[j] = "["}) - Cardinality({j \in 1..i : toks[j] = "]"})

MayFollow(a, b) ==
  IF a = "[" THEN b \in ValueTokens \cup {"[", "]"}
  ELSE IF a = "," THEN b \in ValueTokens \cup {"["}
  ELSE b \in {",", "]"}

ValidJson(toks) ==
  \/ Len(toks) = 1 /\ toks[1] \in ValueTokens
  \/ /\ Len(toks) >= 2
     /\ toks[1] = "["
     /\ \A i \in 1..Len(toks) : toks[i] \in ValueTokens \cup {"[", "]", ","}
     /\ \A i \in 1..(Len(toks) - 1) :
          Depth(toks, i) > 0 /\ MayFollow(toks[i], toks[i + 1])
     /\ Depth(toks, Len(toks)) = 0

\* Empty array, empty or absent text, or text that is not JSON.
EmptyLike(body) ==
  \/ ~body.present
  \/ body.tokens = <<>>
  \/ body.tokens = <<"[", "]">>
  \/ ~ValidJson(body.tokens)

\* ------------------------------------------------------------------ claims
\* C1: the rendered trigger is disabled exactly when no image is held or a
\* request is in flight, and handleAnalyze only starts a request from a
\* state with an image and loading = false.
C1_TriggerDisabledIff ==
  /\ [](view.mounted => (view.disabled <=> (image = NoImage \/ loading)))
  /\ [][Fired => image # NoImage /\ ~loading /\ ~view.disabled]_vars

C1_Witness ==
  /\ image # NoImage /\ loading /\ view.mounted /\ view.disabled
  /\ Len(calls) = 1 /\ calls[1].state = "pending"

\* C2: whenever the awaited call rejects, the state after handleAnalyze
\* finishes shows the generic error notice and zero result cards, whatever
\* the prior results were.
C2_RejectShowsErrorAndNoCards ==
  [][ResumeStep /\ SettledCall.state = "rejected"
       => /\ error' = GenericError
          /\ view'.notice = GenericError
          /\ view'.cards = 0]_vars

\* C3: a response that is an empty array, empty or absent text, or text
\* that does not parse makes identifyFonts fulfil with the empty list, and
\* the handler then shows zero cards with the "no fonts" notice, never the
\* generic error.
C3_EmptyLikeGivesNoFontsNotice ==
  /\ [](\A k \in 1..Len(calls) :
          (calls[k].response # <<>> /\ EmptyLike(calls[k].response[1]))
            => calls[k].state = "fulfilled" /\ calls[k].value = EmptyArray)
  /\ [][(ResumeStep /\ SettledCall.response # <<>>
           /\ EmptyLike(SettledCall.response[1]))
          => /\ results' = EmptyArray
             /\ error' = NoFontsNotice
             /\ view'.mounted
             /\ view'.cards = 0
             /\ view'.notice = NoFontsNotice]_vars

C3_Witness ==
  /\ error = NoFontsNotice /\ view.notice = NoFontsNotice
  /\ results = EmptyArray /\ view.cards = 0 /\ ~loading /\ image # NoImage

\* C4: at most one analysis request is in flight at any time, and loading
\* is true exactly while one is outstanding.
C4_SingleInFlight ==
  /\ Len(calls) <= 1
  /\ loading <=> (calls # <<>>)

C4_Witness ==
  /\ loading /\ Len(calls) = 1 /\ calls[1].state = "pending"
  /\ PendingReads > 0 /\ timers > 0

\* C5: without the credential no outbound call is ever in flight; the
\* failure is caught by handleAnalyze, which shows the generic error,
\* returns loading to false and leaves the trigger usable again.
C5_MissingKeyNoCall ==
  /\ [](~apiKey => \A k \in 1..Len(calls) :
                     calls[k].state = "rejected" /\ calls[k].response = <<>>)
  /\ [][~apiKey /\ ResumeStep
          => /\ error' = GenericError
             /\ view'.notice = GenericError
             /\ ~loading'
             /\ calls' = <<>>
             /\ view'.mounted /\ ~view'.disabled]_vars

C5_Witness ==
  /\ ~apiKey /\ error = GenericError /\ ~loading /\ calls = <<>>
  /\ image # NoImage /\ PendingReads > 0

\* C6: the copied indicator is on exactly the rendered cells whose
\* character equals copiedChar, in every card and bucket, so at most one
\* character value carries it.
C6_IndicatorKeyedByValue ==
  /\ view.mounted => view.cells = Cells(results)
  /\ view.copied = {c \in view.cells : CharAt(results, c) = copiedChar}
  /\ Cardinality({CharAt(results, c) : c \in view.copied}) <= 1

C6_Witness ==
  \E c, d \in view.copied :
     c[1] # d[1] /\ c[2] = "persian" /\ CharAt(results, c) = copiedChar

\* C7 (as stated): firing the trigger leaves results and image unchanged,
\* sets loading and clears the error; while loading, results change only
\* when the request completes successfully.
C7_ResultsKeptThroughLoading ==
  [][/\ Fired => /\ results' = results /\ image' = image
                 /\ loading' /\ error' = Null
     /\ (loading /\ results' # results)
          => /\ ResumeStep /\ SettledCall.state = "fulfilled"
             /\ results' = SettledCall.value]_vars

\* C7 (amended): as above, except that a FileReader finishing while loading
\* also changes results, by clearing them.
C7_ResultsKeptUnlessNewImage ==
  [][/\ Fired => /\ results' = results /\ image' = image
                 /\ loading' /\ error' = Null
     /\ (loading /\ results' # results)
          => \/ /\ ResumeStep /\ SettledCall.state = "fulfilled"
                /\ results' = SettledCall.value
             \/ LoadStep /\ results' = EmptyArray]_vars

C7_Witness ==
  /\ loading /\ view.cards > 0 /\ error = Null
  /\ Len(calls) = 1 /\ calls[1].state = "pending" /\ calls[1].image = image

\* C8: every Loading state is eventually left; the handler ends with
\* loading = false and either the returned value in results or the generic
\* error; loading is never left true once no call remains.
C8_LoadingEventuallyLeft ==
  /\ loading ~> ~loading
  /\ [](calls = <<>> => ~loading)
  /\ [][ResumeStep
          => /\ ~loading'
             /\ \/ /\ SettledCall.state = "fulfilled"
                   /\ results' = SettledCall.value
                \/ /\ SettledCall.state = "rejected"
                   /\ error' = GenericError]_vars

C8_Witness ==
  /\ ~loading /\ calls = <<>> /\ view.cards = MaxFonts
  /\ error = Null /\ apiKey

\* C9: displayed results and notices belong to the held image: a request
\* that completes writes its outcome only if the image it analysed is the
\* image now in state.
C9_ResultsBelongToHeldImage ==
  [][ResumeStep => SettledCall.image = image]_vars

\* C10: copiedChar is cleared only by the expiry timer of the latest copy:
\* a timer of an earlier copy does not clear a later copy's indicator.
C10_OnlyOwnTimerClears ==
  [][(copiedChar # Null /\ copiedChar' = Null) => timers = 1]_vars

====
